---- MODULE Spec2Model ----
(***************************************************************************)
(* Model of the two scripts of the repository:                             *)
(*   convert_mp4_to_mp3.py   (script 1: MP4 -> MP3 with a portable FFmpeg)  *)
(*   transcribir_mp3_vosk.py (script 2: MP3 -> WAV -> Vosk transcript)      *)
(* The state is the working directory (the files the scripts read and      *)
(* write, which persist from one run to the next) plus the position of the *)
(* running main() and what that run has done so far.  Everything the       *)
(* scripts do not control (the network, the archive served, the behaviour  *)
(* of ffmpeg.exe, of pip, of the Vosk recognizer, of the operating system) *)
(* is an input drawn from a small set.                                     *)
(***************************************************************************)
EXTENDS Integers, Sequences, FiniteSets, TLC

VARIABLES
    pc,          \* position of the running main(): "idle" before the first run
    script,      \* 0 none yet, 1 convert_mp4_to_mp3.py, 2 transcribir_mp3_vosk.py
    mp4,         \* WORKDIR / VIDEO_FILE exists
    mp3,         \* the MP3 (output of script 1, input of script 2) exists
    wav,         \* WAV_FILE: [exists, nchannels, sampwidth, framerate]
    ffRoot,      \* the directory tools/ffmpeg exists
    ffExe,       \* some ffmpeg.exe exists under tools/ffmpeg
    ffZip,       \* tools/ffmpeg/ffmpeg-release-essentials.zip
    modelDir,    \* models/vosk-model-small-es-0.42: "absent", "empty", "full"
    altDir,      \* another directory models/vosk-model-small-es* exists
    modelZip,    \* models/vosk-model-small-es-0.42.zip
    trace,       \* the stages this run has attempted, in order
    failed,      \* the stage of this run that failed, or "none"
    logs,        \* the log lines this run has printed (as tags)
    exitStatus,  \* exit status of the process of this run (0, or 1 after a traceback)
    prov,        \* what the last provisioner call of this run did
    conv,        \* what the conversion call of this run did
    tr,          \* what transcribe_with_vosk did in this run (summary)
    wrote,       \* this run wrote OUTPUT_FILE
    tin,         \* input of a direct call of transcribe_with_vosk
    tout         \* its outcome

vars == <<pc, script, mp4, mp3, wav, ffRoot, ffExe, ffZip, modelDir, altDir,
          modelZip, trace, failed, logs, exitStatus, prov, conv, tr, wrote,
          tin, tout>>

fsVars == <<mp4, mp3, wav, ffRoot, ffExe, ffZip, modelDir, altDir, modelZip>>
callVars == <<tin, tout>>

(***************************************************************************)
(* Bounds of the model.                                                    *)
(***************************************************************************)
MaxFrames == 2      \* frames of a WAV in a direct call of transcribe_with_vosk
MaxSegLen == 2      \* characters of a segment text the recognizer emits
RunFrames == 1      \* frames of the WAV inside a run of script 2

(***************************************************************************)
(* Program constants.                                                      *)
(***************************************************************************)
MONO == 1
SAMPLE_WIDTH == 2
SAMPLE_RATE == 16000

(***************************************************************************)
(* Text: a string is a sequence of characters.                             *)
(***************************************************************************)
Chars == {"a", " "}
IsSpace(c) == c = " "

RECURSIVE StringsOfLen(_)
StringsOfLen(n) ==
    IF n = 0 THEN {<<>>}
    ELSE {Append(s, c) : s \in StringsOfLen(n - 1), c \in Chars}

StringsUpTo(n) == UNION {StringsOfLen(k) : k \in 0..n}

\* str.lstrip()
RECURSIVE lstrip(_)
lstrip(s) ==
    IF s = <<>> THEN s
    ELSE IF IsSpace(Head(s)) THEN lstrip(Tail(s)) ELSE s

\* str.rstrip()
RECURSIVE rstrip(_)
rstrip(s) ==
    IF s = <<>> THEN s
    ELSE IF IsSpace(s[Len(s)]) THEN rstrip(SubSeq(s, 1, Len(s) - 1)) ELSE s

\* str.strip()
strip(s) == rstrip(lstrip(s))

\* sep.join(parts)
RECURSIVE join(_, _)
join(sep, parts) ==
    IF parts = <<>> THEN <<>>
    ELSE IF Len(parts) = 1 THEN parts[1]
    ELSE parts[1] \o sep \o join(sep, Tail(parts))

\* (x.strip() for x in results if x.strip())
RECURSIVE stripped_nonempty(_)
stripped_nonempty(results) ==
    IF results = <<>> THEN <<>>
    ELSE LET x == strip(Head(results))
         IN  IF x # <<>> THEN <<x>> \o stripped_nonempty(Tail(results))
             ELSE stripped_nonempty(Tail(results))

\* " ".join(x.strip() for x in results if x.strip()).strip()
assemble_bad(results) == join(<<" ">>, results)
assemble(results) == strip(join(<<" ">>, stripped_nonempty(results)))

(***************************************************************************)
(* transcribir_mp3_vosk.py: transcribe_with_vosk                           *)
(***************************************************************************)
NoWav == [exists |-> FALSE, nchannels |-> 0, sampwidth |-> 0, framerate |-> 0]
WavFiles ==
    [exists : {TRUE}, nchannels : {MONO, 2}, sampwidth : {1, SAMPLE_WIDTH},
     framerate : {8000, SAMPLE_RATE}]
\* what ffmpeg writes for "-ac 1 -ar 16000 out.wav" (16-bit PCM is its WAV default)
ConvertedWav ==
    [exists |-> TRUE, nchannels |-> MONO, sampwidth |-> SAMPLE_WIDTH,
     framerate |-> SAMPLE_RATE]

\* wf.getnchannels() != 1 or wf.getsampwidth() != 2 or wf.getframerate() != 16000
format_mismatch(w) ==
    w.nchannels # MONO \/ w.sampwidth # SAMPLE_WIDTH \/ w.framerate # SAMPLE_RATE

(* What the recognizer does with one frame:                                *)
(*   "no"     AcceptWaveform returns False (no segment boundary)           *)
(*   "notext" AcceptWaveform returns True, Result() has no 'text' key      *)
(*   "text"   AcceptWaveform returns True, Result() carries 'text'         *)
(*   "raise"  AcceptWaveform raises                                        *)
FrameSteps(texts) ==
    [kind : {"no", "notext", "raise"}, text : {<<>>}]
    \cup [kind : {"text"}, text : texts]
\* FinalResult(): with or without a 'text' key
FinalSteps(texts) ==
    {[has |-> FALSE, text |-> <<>>]} \cup [has : {TRUE}, text : texts]
Recognizers(maxFrames, texts) ==
    UNION {[perFrame : [1..n -> FrameSteps(texts)], final : FinalSteps(texts)]
           : n \in 0..maxFrames}

\* the state of the call before the loop of lines 143-150
LoopStart ==
    [raised |-> "none", reads |-> 0, fed |-> <<>>, flushes |-> 0,
     results |-> <<>>, text |-> <<>>]

\* the while loop of lines 143-150, from frame i on; frame i of the file is
\* the i-th block of 4000 samples (wf.readframes(4000)), named by its index
RECURSIVE read_loop(_, _, _)
read_loop(rec, i, st) ==
    IF i > Len(rec.perFrame)
    THEN [st EXCEPT !.reads = @ + 1]          \* readframes returns b"": break
    ELSE LET b == rec.perFrame[i]
             fedNow == [st EXCEPT !.reads = @ + 1, !.fed = Append(@, i)]
         IN  IF b.kind = "raise" THEN [fedNow EXCEPT !.raised = "recognizer"]
             ELSE IF b.kind = "text"
                  THEN read_loop(rec, i + 1,
                                 [fedNow EXCEPT !.results = Append(@, b.text)])
                  ELSE read_loop(rec, i + 1, fedNow)

\* lines 151-153: the flush after the loop
flush(rec, st) ==
    IF st.raised # "none" THEN st
    ELSE [st EXCEPT !.flushes = @ + 1,
                    !.results = IF rec.final.has THEN Append(@, rec.final.text) ELSE @]

\* a variant that validates the format only after the frames were processed
transcribe_late_check(w, loads, rec) ==
    IF ~loads THEN [LoopStart EXCEPT !.raised = "model"]
    ELSE IF ~w.exists THEN [LoopStart EXCEPT !.raised = "open"]
    ELSE LET st == flush(rec, read_loop(rec, 1, LoopStart))
         IN  IF format_mismatch(w) THEN [st EXCEPT !.raised = "format"]
             ELSE IF st.raised # "none" THEN st
             ELSE [st EXCEPT !.text = assemble(st.results)]

\* transcribe_with_vosk(wav_path, model_dir); loads: vosk.Model(...) succeeds
transcribe_with_vosk(w, loads, rec) ==
    IF ~loads THEN [LoopStart EXCEPT !.raised = "model"]
    ELSE IF ~w.exists THEN [LoopStart EXCEPT !.raised = "open"]
    ELSE IF format_mismatch(w) THEN [LoopStart EXCEPT !.raised = "format"]
    ELSE LET st == flush(rec, read_loop(rec, 1, LoopStart))
         IN  IF st.raised # "none" THEN st
             ELSE [st EXCEPT !.text = assemble(st.results)]

NotCalled == [LoopStart EXCEPT !.raised = "notcalled"]

(***************************************************************************)
(* The provisioners.                                                       *)
(* An archive file is "absent", or holds "good" (a valid zip with the      *)
(* expected artifact), "alt" (a valid zip whose top directory is another   *)
(* vosk-model-small-es* name), "junk" (a valid zip without the artifact)   *)
(* or "corrupt" (a partial or damaged file).                               *)
(* The network and the server: "refused" (the request fails or the status  *)
(* is an error), "interrupted" (the stream breaks after the file was       *)
(* opened for writing), or the kind of archive served.                     *)
(* Extraction of a valid zip: "full", "partial" (fails after the artifact  *)
(* was written) or "none" (fails before).                                  *)
(***************************************************************************)
FfArchives == {"good", "junk"}
ModelArchives == {"good", "alt", "junk"}
NetFf == {"refused", "interrupted"} \cup FfArchives
NetModel == {"refused", "interrupted"} \cup ModelArchives
Extractions == {"full", "partial", "none"}

\* download_file(url, dest); dirExists: the directory of dest exists
download_file(dirExists, net) ==
    IF net = "refused" THEN [raised |-> TRUE, file |-> "absent"]
    ELSE IF ~dirExists THEN [raised |-> TRUE, file |-> "absent"]   \* open(dest, "wb")
    ELSE IF net = "interrupted" THEN [raised |-> TRUE, file |-> "corrupt"]
    ELSE [raised |-> FALSE, file |-> net]

\* the same function as it stands in transcribir_mp3_vosk.py
download_file_2(dirExists, net) == download_file(dirExists, net)

\* zipfile.ZipFile(zip).extractall(dir): does it raise, was the artifact written
extractall(zip, how) ==
    IF zip = "corrupt" THEN [raised |-> TRUE, wrote |-> FALSE]
    ELSE [raised |-> how # "full", wrote |-> how # "none"]

NoCall ==
    [who |-> "none", present |-> FALSE, zipBefore |-> "absent", healthy |-> FALSE,
     downloads |-> 0, extractions |-> 0, searches |-> 0,
     ret |-> "none", err |-> "none"]

\* the server is up and serves the right archive, and extraction works
Healthy(net, how) == net = "good" /\ how = "full"

\* what a provisioner call did, before main notes who was called and on what
Searched == [NoCall EXCEPT !.searches = 1]

\* lines 58-67 of ensure_ffmpeg: no ffmpeg.exe was found under tools/ffmpeg
provision_ffmpeg(root, exe, zip, net, how) ==
    LET d == IF zip = "absent" THEN download_file(root, net)
             ELSE [raised |-> FALSE, file |-> zip]
        c1 == [Searched EXCEPT !.downloads = IF zip = "absent" THEN 1 ELSE 0]
    IN  IF d.raised
        THEN [call |-> [c1 EXCEPT !.err = "download"], exe |-> exe, zip |-> d.file]
        ELSE
        LET x == extractall(d.file, how)
            exe2 == exe \/ (x.wrote /\ d.file = "good")
            c2 == [c1 EXCEPT !.extractions = 1]
        IN  IF x.raised
            THEN [call |-> [c2 EXCEPT !.err = "extract"], exe |-> exe2, zip |-> d.file]
            ELSE IF exe2
            THEN [call |-> [c2 EXCEPT !.searches = 2, !.ret = "ffmpeg.exe"],
                  exe |-> exe2, zip |-> d.file]
            ELSE [call |-> [c2 EXCEPT !.searches = 2, !.err = "notfound"],
                  exe |-> exe2, zip |-> d.file]

\* a variant without the first search: it provisions whatever is on disk
ensure_ffmpeg_no_search(root, exe, zip, net, how) ==
    provision_ffmpeg(root, exe, zip, net, how)

\* ensure_ffmpeg(): the call record, and ffmpeg.exe and the zip afterwards
ensure_ffmpeg(root, exe, zip, net, how) ==
    IF exe
    THEN [call |-> [Searched EXCEPT !.ret = "ffmpeg.exe"], exe |-> exe, zip |-> zip]
    ELSE provision_ffmpeg(root, exe, zip, net, how)

\* the same function as it stands in transcribir_mp3_vosk.py
ensure_ffmpeg_2(root, exe, zip, net, how) == ensure_ffmpeg(root, exe, zip, net, how)

\* a variant that returns VOSK_MODEL_DIR after the extraction without looking
provision_vosk_model_no_research(dir, alt, zip, net, how) ==
    LET d == IF zip = "absent" THEN download_file_2(TRUE, net)
             ELSE [raised |-> FALSE, file |-> zip]
        c1 == [Searched EXCEPT !.downloads = IF zip = "absent" THEN 1 ELSE 0]
    IN  IF d.raised
        THEN [call |-> [c1 EXCEPT !.err = "download"],
              dir |-> dir, alt |-> alt, zip |-> d.file]
        ELSE
        LET x == extractall(d.file, how)
            dir2 == IF x.wrote /\ d.file = "good" THEN "full" ELSE dir
            alt2 == alt \/ (x.wrote /\ d.file = "alt")
            c2 == [c1 EXCEPT !.extractions = 1]
        IN  IF x.raised
            THEN [call |-> [c2 EXCEPT !.err = "extract"],
                  dir |-> dir2, alt |-> alt2, zip |-> d.file]
            ELSE [call |-> [c2 EXCEPT !.searches = 2, !.ret = "VOSK_MODEL_DIR"],
                  dir |-> dir2, alt |-> alt2, zip |-> d.file]

\* lines 117-129 of ensure_vosk_model: VOSK_MODEL_DIR is missing or empty
provision_vosk_model(dir, alt, zip, net, how) ==
    LET d == IF zip = "absent" THEN download_file_2(TRUE, net)
             ELSE [raised |-> FALSE, file |-> zip]
        c1 == [Searched EXCEPT !.downloads = IF zip = "absent" THEN 1 ELSE 0]
    IN  IF d.raised
        THEN [call |-> [c1 EXCEPT !.err = "download"],
              dir |-> dir, alt |-> alt, zip |-> d.file]
        ELSE
        LET x == extractall(d.file, how)
            dir2 == IF x.wrote /\ d.file = "good" THEN "full" ELSE dir
            alt2 == alt \/ (x.wrote /\ d.file = "alt")
            c2 == [c1 EXCEPT !.extractions = 1]
        IN  IF x.raised
            THEN [call |-> [c2 EXCEPT !.err = "extract"],
                  dir |-> dir2, alt |-> alt2, zip |-> d.file]
            ELSE IF dir2 # "absent"               \* VOSK_MODEL_DIR.exists()
            THEN [call |-> [c2 EXCEPT !.searches = 2, !.ret = "VOSK_MODEL_DIR"],
                  dir |-> dir2, alt |-> alt2, zip |-> d.file]
            ELSE IF alt2                          \* the fallback of lines 126-128
            THEN [call |-> [c2 EXCEPT !.searches = 2, !.ret = "alt"],
                  dir |-> dir2, alt |-> alt2, zip |-> d.file]
            ELSE [call |-> [c2 EXCEPT !.searches = 2, !.err = "notfound"],
                  dir |-> dir2, alt |-> alt2, zip |-> d.file]

\* ensure_vosk_model(): the call record, and the model directory, the other
\* vosk-model-small-es* directory and the zip afterwards
ensure_vosk_model(dir, alt, zip, net, how) ==
    IF dir = "full"     \* VOSK_MODEL_DIR.exists() and any(VOSK_MODEL_DIR.iterdir())
    THEN [call |-> [Searched EXCEPT !.ret = "VOSK_MODEL_DIR"],
          dir |-> dir, alt |-> alt, zip |-> zip]
    ELSE provision_vosk_model(dir, alt, zip, net, how)

\* ensure_vosk_installed(); pip: "present" (import vosk works), "installed"
\* (pip install succeeds), "pipfail" (pip exits non-zero: check=True raises)
ensure_vosk_installed(pip) ==
    [raised |-> pip = "pipfail", logged |-> pip # "present"]

(***************************************************************************)
(* The conversions.  What ffmpeg.exe does when run is an input: whether    *)
(* the process starts at all, its exit status, and what happens to the     *)
(* output path ("written", "untouched", "deleted").                        *)
(***************************************************************************)
Ffmpegs ==
    [starts : {TRUE}, exit : {0, 1}, out : {"written", "untouched", "deleted"}]
    \cup {[starts |-> FALSE, exit |-> 1, out |-> "untouched"]}

NoConv ==
    [who |-> "none", existed |-> FALSE, invoked |-> 0, overwrite |-> FALSE,
     ran |-> FALSE, exit |-> 0,
     outAfter |-> FALSE, err |-> "none", completed |-> FALSE, reused |-> FALSE]

\* does the output path hold a file after ffmpeg ran
out_exists(existed, ff) ==
    IF ff.out = "written" THEN TRUE
    ELSE IF ff.out = "deleted" THEN FALSE
    ELSE existed

\* a variant that believes the output file rather than the exit status
convert_mp4_to_mp3_trusts_file(input, output, ff) ==
    LET c == [NoConv EXCEPT !.who = "mp3", !.existed = output, !.invoked = 1, !.overwrite = TRUE,
                            !.ran = ff.starts, !.exit = ff.exit,
                            !.outAfter = IF ff.starts THEN out_exists(output, ff)
                                         ELSE output]
    IN  IF ~ff.starts THEN [c EXCEPT !.err = "oserror"]
        ELSE IF ~c.outAfter THEN [c EXCEPT !.err = "nooutput"]
        ELSE [c EXCEPT !.completed = TRUE]

\* convert_mp4_to_mp3(input_mp4, ffmpeg_exe); input, output: the files exist
convert_mp4_to_mp3(input, output, ff) ==
    LET c0 == [NoConv EXCEPT !.who = "mp3", !.existed = output, !.outAfter = output]
    IN  IF ~input THEN [c0 EXCEPT !.err = "input"]
        ELSE IF ~ff.starts                       \* subprocess.run raises OSError
        THEN [c0 EXCEPT !.invoked = 1, !.overwrite = TRUE, !.err = "oserror"]
        ELSE
        LET c1 == [c0 EXCEPT !.invoked = 1, !.overwrite = TRUE, !.ran = TRUE, !.exit = ff.exit,
                             !.outAfter = out_exists(output, ff)]
        IN  IF ff.exit # 0 THEN [c1 EXCEPT !.err = "failed"]
            ELSE IF ~c1.outAfter THEN [c1 EXCEPT !.err = "nooutput"]
            ELSE [c1 EXCEPT !.completed = TRUE]

\* a variant that converts again although WAV_FILE is there
convert_mp3_to_wav_no_reuse(input, output, ff) ==
    LET c0 == [NoConv EXCEPT !.who = "wav", !.existed = output, !.outAfter = output]
    IN  IF ~input THEN [c0 EXCEPT !.err = "input"]
        ELSE IF ~ff.starts
        THEN [c0 EXCEPT !.invoked = 1, !.overwrite = TRUE, !.err = "oserror"]
        ELSE
        LET c1 == [c0 EXCEPT !.invoked = 1, !.overwrite = TRUE, !.ran = TRUE, !.exit = ff.exit,
                             !.outAfter = out_exists(output, ff)]
        IN  IF ff.exit # 0 THEN [c1 EXCEPT !.err = "failed"]
            ELSE [c1 EXCEPT !.completed = TRUE]

\* convert_mp3_to_wav(ffmpeg_exe, input_mp3, output_wav)
convert_mp3_to_wav(input, output, ff) ==
    LET c0 == [NoConv EXCEPT !.who = "wav", !.existed = output, !.outAfter = output]
    IN  IF ~input THEN [c0 EXCEPT !.err = "input"]
        ELSE IF output THEN [c0 EXCEPT !.reused = TRUE]   \* "WAV ya existe, se reutiliza"
        ELSE IF ~ff.starts
        THEN [c0 EXCEPT !.invoked = 1, !.overwrite = TRUE, !.err = "oserror"]
        ELSE
        LET c1 == [c0 EXCEPT !.invoked = 1, !.overwrite = TRUE, !.ran = TRUE, !.exit = ff.exit,
                             !.outAfter = out_exists(output, ff)]
        IN  IF ff.exit # 0 THEN [c1 EXCEPT !.err = "failed"]
            ELSE [c1 EXCEPT !.completed = TRUE]           \* no look at output_wav

(***************************************************************************)
(* The state before any run: any working directory.  A file under          *)
(* tools/ffmpeg implies that directory.                                    *)
(***************************************************************************)
NoTr ==
    [raised |-> "notcalled", loaded |-> FALSE, reads |-> 0, fed |-> 0, flushes |-> 0,
     empty |-> TRUE]
NoInput == [wav |-> NoWav, loads |-> FALSE, rec |-> [perFrame |-> <<>>, final |-> [has |-> FALSE, text |-> <<>>]]]

RunInit ==
    /\ trace = <<>>
    /\ failed = "none"
    /\ logs = {}
    /\ exitStatus = 0
    /\ prov = NoCall
    /\ conv = NoConv
    /\ tr = NoTr
    /\ wrote = FALSE

Init ==
    /\ pc = "idle"
    /\ script = 0
    /\ mp4 \in BOOLEAN
    /\ mp3 \in BOOLEAN
    /\ wav \in {NoWav} \cup WavFiles
    /\ ffRoot \in BOOLEAN
    /\ ffExe \in BOOLEAN
    /\ ffZip \in {"absent", "corrupt"} \cup FfArchives
    /\ (ffExe \/ ffZip # "absent") => ffRoot
    /\ modelDir \in {"absent", "empty", "full"}
    /\ altDir \in BOOLEAN
    /\ modelZip \in {"absent", "corrupt"} \cup ModelArchives
    /\ RunInit
    /\ tin = NoInput
    /\ tout = NotCalled

\* the reset of the per-run record when a process starts
Reset ==
    /\ trace' = <<>>
    /\ failed' = "none"
    /\ exitStatus' = 0
    /\ prov' = NoCall
    /\ conv' = NoConv
    /\ tr' = NoTr
    /\ wrote' = FALSE

Ended == pc \in {"idle", "Done", "Aborted"}

\* a stage raised and the except clause of main logged `tag` and returned
Abort(stage, tag) ==
    /\ pc' = "Aborted"
    /\ failed' = stage
    /\ logs' = logs \cup {tag}

(***************************************************************************)
(* convert_mp4_to_mp3.py: main()                                           *)
(***************************************************************************)
\* python convert_mp4_to_mp3.py: main() starts and logs its banner
Start1 ==
    /\ Ended
    /\ pc' = "m1_input"
    /\ script' = 1
    /\ Reset
    /\ logs' = {"banner"}
    /\ UNCHANGED <<fsVars, callVars>>

\* lines 98-102
M1CheckInput ==
    /\ pc = "m1_input"
    /\ trace' = Append(trace, "input")
    /\ IF ~mp4
       THEN Abort("input", "no_input")
       ELSE pc' = "m1_dirs" /\ UNCHANGED <<failed, logs>>
    /\ UNCHANGED <<script, fsVars, callVars, exitStatus, prov, conv, tr, wrote>>

\* line 104: ensure_dirs(), outside every try
M1EnsureDirs ==
    /\ pc = "m1_dirs"
    /\ trace' = Append(trace, "dirs")
    /\ \E mkdirOk \in BOOLEAN :
         IF mkdirOk
         THEN /\ pc' = "m1_ffmpeg"
              /\ ffRoot' = TRUE
              /\ UNCHANGED <<failed, exitStatus>>
         ELSE /\ pc' = "Aborted"          \* the OSError leaves main: traceback
              /\ failed' = "dirs"
              /\ exitStatus' = 1
              /\ UNCHANGED ffRoot
    /\ UNCHANGED <<script, mp4, mp3, wav, ffExe, ffZip, modelDir, altDir, modelZip,
                   callVars, logs, prov, conv, tr, wrote>>

\* lines 105-109
M1EnsureFfmpeg ==
    /\ pc = "m1_ffmpeg"
    /\ trace' = Append(trace, "ffmpeg")
    /\ \E net \in NetFf, how \in Extractions :
         LET r == ensure_ffmpeg(ffRoot, ffExe, ffZip, net, how)
         IN  /\ prov' = [r.call EXCEPT !.who = "ffmpeg", !.present = ffExe,
                                       !.zipBefore = ffZip,
                                       !.healthy = Healthy(net, how)]
             /\ ffExe' = r.exe
             /\ ffZip' = r.zip
             /\ IF r.call.err # "none"
                THEN Abort("ffmpeg", "err_ffmpeg")
                ELSE /\ pc' = "m1_convert"
                     /\ logs' = logs \cup {"ffmpeg_located"}
                     /\ UNCHANGED failed
    /\ UNCHANGED <<script, mp4, mp3, wav, ffRoot, modelDir, altDir, modelZip,
                   callVars, exitStatus, conv, tr, wrote>>

\* a variant whose except clause logs the error and does not return
M1Convert_no_return ==
    /\ pc = "m1_convert"
    /\ trace' = Append(trace, "convert")
    /\ \E ff \in Ffmpegs :
         LET c == convert_mp4_to_mp3(mp4, mp3, ff)
         IN  /\ conv' = c
             /\ mp3' = c.outAfter
             /\ pc' = "m1_finish"
             /\ IF c.err # "none"
                THEN /\ failed' = "convert"
                     /\ logs' = logs \cup {"err_conv"}
                ELSE /\ logs' = logs \cup {"conv_done", "out_created"}
                     /\ UNCHANGED failed
    /\ UNCHANGED <<script, mp4, wav, ffRoot, ffExe, ffZip, modelDir, altDir, modelZip,
                   callVars, exitStatus, prov, tr, wrote>>

\* lines 111-116
M1Convert ==
    /\ pc = "m1_convert"
    /\ trace' = Append(trace, "convert")
    /\ \E ff \in Ffmpegs :
         LET c == convert_mp4_to_mp3(mp4, mp3, ff)
         IN  /\ conv' = c
             /\ mp3' = c.outAfter
             /\ IF c.err # "none"
                THEN Abort("convert", "err_conv")
                ELSE /\ pc' = "m1_finish"
                     /\ logs' = logs \cup {"conv_done", "out_created"}
                     /\ UNCHANGED failed
    /\ UNCHANGED <<script, mp4, wav, ffRoot, ffExe, ffZip, modelDir, altDir, modelZip,
                   callVars, exitStatus, prov, tr, wrote>>

\* line 118
M1Finish ==
    /\ pc = "m1_finish"
    /\ pc' = "Done"
    /\ logs' = logs \cup {"finished"}
    /\ UNCHANGED <<script, fsVars, callVars, trace, failed, exitStatus, prov, conv,
                   tr, wrote>>

(***************************************************************************)
(* transcribir_mp3_vosk.py: main()                                         *)
(***************************************************************************)
\* python transcribir_mp3_vosk.py: main() starts and logs its banner
Start2 ==
    /\ Ended
    /\ pc' = "m2_input"
    /\ script' = 2
    /\ Reset
    /\ logs' = {"banner"}
    /\ UNCHANGED <<fsVars, callVars>>

\* lines 159-161
M2CheckInput ==
    /\ pc = "m2_input"
    /\ trace' = Append(trace, "input")
    /\ IF ~mp3
       THEN Abort("input", "no_input")
       ELSE pc' = "m2_dirs" /\ UNCHANGED <<failed, logs>>
    /\ UNCHANGED <<script, fsVars, callVars, exitStatus, prov, conv, tr, wrote>>

\* lines 163-164: TOOLS_DIR and MODELS_DIR are made, outside every try;
\* tools/ffmpeg is not made here
M2MakeDirs ==
    /\ pc = "m2_dirs"
    /\ trace' = Append(trace, "dirs")
    /\ \E mkdirOk \in BOOLEAN :
         IF mkdirOk
         THEN /\ pc' = "m2_ffmpeg"
              /\ UNCHANGED <<failed, exitStatus>>
         ELSE /\ pc' = "Aborted"          \* the OSError leaves main: traceback
              /\ failed' = "dirs"
              /\ exitStatus' = 1
    /\ UNCHANGED <<script, fsVars, callVars, logs, prov, conv, tr, wrote>>

\* lines 166-170
M2EnsureFfmpeg ==
    /\ pc = "m2_ffmpeg"
    /\ trace' = Append(trace, "ffmpeg")
    /\ \E net \in NetFf, how \in Extractions :
         LET r == ensure_ffmpeg_2(ffRoot, ffExe, ffZip, net, how)
         IN  /\ prov' = [r.call EXCEPT !.who = "ffmpeg", !.present = ffExe,
                                       !.zipBefore = ffZip,
                                       !.healthy = Healthy(net, how)]
             /\ ffExe' = r.exe
             /\ ffZip' = r.zip
             /\ IF r.call.err # "none"
                THEN Abort("ffmpeg", "err_ffmpeg")
                ELSE /\ pc' = "m2_convert"
                     /\ logs' = logs \cup {"ffmpeg_located"}
                     /\ UNCHANGED failed
    /\ UNCHANGED <<script, mp4, mp3, wav, ffRoot, modelDir, altDir, modelZip,
                   callVars, exitStatus, conv, tr, wrote>>

\* lines 172-176
M2Convert ==
    /\ pc = "m2_convert"
    /\ trace' = Append(trace, "convert")
    /\ \E ff \in Ffmpegs :
         LET c == convert_mp3_to_wav(mp3, wav.exists, ff)
         IN  /\ conv' = c
             /\ wav' = IF c.invoked = 1 /\ c.outAfter THEN ConvertedWav ELSE wav
             /\ IF c.err # "none"
                THEN Abort("convert", "err_conv")
                ELSE /\ pc' = "m2_vosk"
                     /\ logs' = logs \cup (IF c.reused THEN {"wav_reused"}
                                           ELSE {"conv_done"})
                     /\ UNCHANGED failed
    /\ UNCHANGED <<script, mp4, mp3, ffRoot, ffExe, ffZip, modelDir, altDir, modelZip,
                   callVars, exitStatus, prov, tr, wrote>>

\* lines 178-179 and 181-183: ensure_vosk_installed()
M2EnsureVoskInstalled ==
    /\ pc = "m2_vosk"
    /\ trace' = Append(trace, "vosk_install")
    /\ \E pip \in {"present", "installed", "pipfail"} :
         LET r == ensure_vosk_installed(pip)
         IN  IF r.raised
             THEN Abort("vosk_install", "err_vosk")
             ELSE /\ pc' = "m2_model"
                  /\ logs' = logs \cup (IF r.logged THEN {"installing_vosk"} ELSE {})
                  /\ UNCHANGED failed
    /\ UNCHANGED <<script, fsVars, callVars, exitStatus, prov, conv, tr, wrote>>

\* lines 180-183: ensure_vosk_model()
M2EnsureVoskModel ==
    /\ pc = "m2_model"
    /\ trace' = Append(trace, "model")
    /\ \E net \in NetModel, how \in Extractions :
         LET r == ensure_vosk_model(modelDir, altDir, modelZip, net, how)
         IN  /\ prov' = [r.call EXCEPT !.who = "model", !.present = (modelDir = "full"),
                                       !.zipBefore = modelZip,
                                       !.healthy = Healthy(net, how)]
             /\ modelDir' = r.dir
             /\ altDir' = r.alt
             /\ modelZip' = r.zip
             /\ IF r.call.err # "none"
                THEN Abort("model", "err_vosk")
                ELSE /\ pc' = "m2_transcribe"
                     /\ UNCHANGED <<failed, logs>>
    /\ UNCHANGED <<script, mp4, mp3, wav, ffRoot, ffExe, ffZip,
                   callVars, exitStatus, conv, tr, wrote>>

\* inside a run the recognizer emits one-character texts: a letter or a blank
RunTexts == StringsOfLen(1)

\* what main keeps of the outcome of transcribe_with_vosk
Summary(t, loads) ==
    [raised |-> t.raised, loaded |-> loads, reads |-> t.reads, fed |-> Len(t.fed),
     flushes |-> t.flushes, empty |-> t.text = <<>>]

\* lines 185-188 and 195-197: transcribe_with_vosk and the warning
M2Transcribe ==
    /\ pc = "m2_transcribe"
    /\ trace' = Append(trace, "transcribe")
    /\ \E loads \in BOOLEAN, rec \in Recognizers(RunFrames, RunTexts) :
         LET t == transcribe_with_vosk(wav, loads, rec)
         IN  /\ tr' = Summary(t, loads)
             /\ IF t.raised # "none"
                THEN Abort("transcribe", "err_transcribe")
                ELSE /\ pc' = "m2_write"
                     /\ logs' = logs \cup (IF t.text = <<>> THEN {"warn_empty"} ELSE {})
                     /\ UNCHANGED failed
    /\ UNCHANGED <<script, fsVars, callVars, exitStatus, prov, conv, wrote>>

\* lines 189-197: the transcript is written to OUTPUT_FILE
M2Write ==
    /\ pc = "m2_write"
    /\ trace' = Append(trace, "write")
    /\ \E openOk \in BOOLEAN :
         IF openOk
         THEN /\ pc' = "m2_finish"
              /\ wrote' = TRUE
              /\ logs' = logs \cup {"saved"}
              /\ UNCHANGED failed
         ELSE /\ Abort("write", "err_transcribe")
              /\ UNCHANGED wrote
    /\ UNCHANGED <<script, fsVars, callVars, exitStatus, prov, conv, tr>>

\* line 199
M2Finish ==
    /\ pc = "m2_finish"
    /\ pc' = "Done"
    /\ logs' = logs \cup {"finished"}
    /\ UNCHANGED <<script, fsVars, callVars, trace, failed, exitStatus, prov, conv,
                   tr, wrote>>

Next ==
    \/ Start1
    \/ M1CheckInput
    \/ M1EnsureDirs
    \/ M1EnsureFfmpeg
    \/ M1Convert
    \/ M1Finish
    \/ Start2
    \/ M2CheckInput
    \/ M2MakeDirs
    \/ M2EnsureFfmpeg
    \/ M2Convert
    \/ M2EnsureVoskInstalled
    \/ M2EnsureVoskModel
    \/ M2Transcribe
    \/ M2Write
    \/ M2Finish

Spec == Init /\ [][Next]_vars

(***************************************************************************)
(* transcribe_with_vosk called on its own: any WAV file, any recognizer.   *)
(***************************************************************************)
CallInit ==
    /\ pc = "idle"
    /\ script = 0
    /\ mp4 = FALSE
    /\ mp3 = FALSE
    /\ wav = NoWav
    /\ ffRoot = FALSE
    /\ ffExe = FALSE
    /\ ffZip = "absent"
    /\ modelDir = "absent"
    /\ altDir = FALSE
    /\ modelZip = "absent"
    /\ RunInit
    /\ tin \in [wav : {NoWav, ConvertedWav, [ConvertedWav EXCEPT !.nchannels = 2]},
                loads : BOOLEAN,
                rec : Recognizers(MaxFrames, StringsUpTo(MaxSegLen))]
    /\ tout = NotCalled

Call ==
    /\ tout = NotCalled
    /\ tout' = transcribe_with_vosk(tin.wav, tin.loads, tin.rec)
    /\ UNCHANGED <<pc, script, fsVars, trace, failed, logs, exitStatus, prov, conv,
                   tr, wrote, tin>>

CallNext == Call

CallSpec == CallInit /\ [][CallNext]_vars

(***************************************************************************)
(* Properties.                                                             *)
(***************************************************************************)
ProvCalled == prov.who # "none"
ExpectedPath == IF prov.who = "ffmpeg" THEN "ffmpeg.exe" ELSE "VOSK_MODEL_DIR"
\* the artifact a provisioner call accepts is on disk now
ArtifactOnDisk ==
    IF prov.who = "ffmpeg" THEN ffExe ELSE (modelDir # "absent" \/ altDir)

C2_ExactlyOneDownload ==
    (ProvCalled /\ ~prov.present /\ prov.searches = 2) =>
        (prov.downloads = 1 /\ prov.extractions = 1)

\* C2, amended: a provisioner call that starts with its artifact missing
\* downloads once if the archive file is not at its path and not at all if it
\* is; it extracts at most once, and only after that download succeeded or was
\* skipped; it searches again only after one extraction; and when that second
\* search finds nothing the call fails with not-found and returns no path.
C2_DownloadUnlessCached ==
    (ProvCalled /\ ~prov.present) =>
        /\ prov.downloads = (IF prov.zipBefore = "absent" THEN 1 ELSE 0)
        /\ prov.extractions = (IF prov.err = "download" THEN 0 ELSE 1)
        /\ prov.searches = (IF prov.err \in {"download", "extract"} THEN 1 ELSE 2)
        /\ (prov.searches = 2 /\ ~ArtifactOnDisk) =>
               (prov.err = "notfound" /\ prov.ret = "none" /\ pc = "Aborted")
        /\ prov.ret # "none" => (prov.err = "none" /\ ArtifactOnDisk)

C2_Witness ==
    /\ ProvCalled
    /\ ~prov.present
    /\ prov.zipBefore = "absent"
    /\ prov.downloads = 1
    /\ prov.extractions = 1
    /\ prov.err = "notfound"

\* C3: when the transcoder ran and exited non-zero, the conversion raised the
\* conversion-failed error, the run is aborted at the conversion stage with the
\* error logged, and neither the conversion's success line nor the completion
\* line is logged, whether or not an output file is at the target path.
C3_NonZeroExitFails ==
    (conv.ran /\ conv.exit # 0) =>
        /\ conv.err = "failed"
        /\ pc = "Aborted"
        /\ failed = "convert"
        /\ trace[Len(trace)] = "convert"
        /\ "err_conv" \in logs
        /\ logs \cap {"conv_done", "out_created", "finished"} = {}

C3_Witness ==
    /\ conv.who = "mp3"
    /\ conv.ran
    /\ conv.exit # 0
    /\ conv.existed
    /\ conv.outAfter
    /\ pc = "Aborted"

\* C4: when the transcoder ran and exited zero and the output file does not
\* exist afterwards, the conversion raised the no-output error, did not log
\* its success, and the run is aborted at the conversion stage.
C4_SilentFailureFails ==
    (conv.ran /\ conv.exit = 0 /\ ~conv.outAfter) =>
        /\ conv.err = "nooutput"
        /\ "conv_done" \notin logs
        /\ pc = "Aborted"
        /\ failed = "convert"

\* C5: when transcribe_with_vosk is called on a WAV that is not mono, 16-bit,
\* 16000 Hz, it reads no frame, feeds none to the recognizer, the run writes no
\* transcript and is aborted at the transcription stage; with the model loaded
\* the error is the format-validation error.
C5_FormatChecked ==
    (tr.raised # "notcalled" /\ wav.exists
       /\ (wav.nchannels # 1 \/ wav.sampwidth # 2 \/ wav.framerate # 16000)) =>
        /\ tr.reads = 0
        /\ tr.fed = 0
        /\ tr.flushes = 0
        /\ ~wrote
        /\ pc = "Aborted"
        /\ failed = "transcribe"
        /\ tr.raised \in {"format", "model"}
        /\ tr.loaded => tr.raised = "format"

C5_Witness ==
    /\ tr.raised = "format"
    /\ wav.nchannels = 1
    /\ wav.sampwidth = 2
    /\ wav.framerate = 8000
    /\ pc = "Aborted"

Order1 == <<"input", "dirs", "ffmpeg", "convert">>
Order2 == <<"input", "dirs", "ffmpeg", "convert", "vosk_install", "model",
            "transcribe", "write">>
Order == IF script = 1 THEN Order1 ELSE Order2

\* C6: the stages a run has attempted are a prefix of the fixed order of its
\* script; a run with a failed stage is aborted, that stage is the last one it
\* attempted, and it has not logged the completion line; the completion line
\* is logged only by a run that attempted every stage and failed none.
C6_StagesInOrder ==
    script # 0 =>
        /\ Len(trace) <= Len(Order)
        /\ trace = SubSeq(Order, 1, Len(trace))
        /\ failed # "none" =>
               /\ pc = "Aborted"
               /\ trace # <<>>
               /\ trace[Len(trace)] = failed
               /\ "finished" \notin logs
        /\ pc = "Aborted" => failed # "none"
        /\ "finished" \in logs =>
               (failed = "none" /\ trace = Order /\ pc = "Done")

C6_Witness ==
    /\ script = 2
    /\ failed = "model"
    /\ pc = "Aborted"
    /\ trace = SubSeq(Order2, 1, 6)

ErrorLines == {"no_input", "err_ffmpeg", "err_conv", "err_vosk", "err_transcribe"}

\* C7: a run with a failed step has logged an error line and its process
\* exits with status zero.
C7_FailuresLoggedExitZero ==
    failed # "none" => (exitStatus = 0 /\ logs \cap ErrorLines # {})

\* C8: a conversion step of script 2 that finds the WAV leaves it as it is,
\* does not run the transcoder and goes on to the next stage; a conversion
\* step of script 1 runs the transcoder with the overwrite flag, whether or not
\* the MP3 is there.
C8_ReuseVersusReconvert ==
    [][ /\ (pc = "m2_convert" /\ wav.exists) =>
              /\ wav' = wav
              /\ conv'.invoked = 0
              /\ conv'.reused
              /\ pc' = "m2_vosk"
        /\ pc = "m1_convert" =>
              (conv'.invoked = 1 /\ conv'.overwrite /\ conv'.existed = mp3)
      ]_vars

C8_Witness ==
    /\ pc = "m2_vosk"
    /\ conv.who = "wav"
    /\ conv.existed
    /\ conv.invoked = 0
    /\ wav.framerate = 8000

\* the segment texts the recognizer emits, in emission order
RECURSIVE EmittedFrom(_, _)
EmittedFrom(rec, i) ==
    IF i > Len(rec.perFrame)
    THEN (IF rec.final.has THEN <<rec.final.text>> ELSE <<>>)
    ELSE (IF rec.perFrame[i].kind = "text" THEN <<rec.perFrame[i].text>> ELSE <<>>)
         \o EmittedFrom(rec, i + 1)
Emitted(rec) == EmittedFrom(rec, 1)

\* a text without its leading and trailing whitespace
Trimmed(s) ==
    LET idx == {i \in 1..Len(s) : s[i] # " "}
    IN  IF idx = {} THEN <<>>
        ELSE SubSeq(s, CHOOSE i \in idx : \A j \in idx : i <= j,
                       CHOOSE i \in idx : \A j \in idx : j <= i)

\* the first k texts of segs, trimmed, the empty ones dropped, one space between
RECURSIVE Joined(_, _)
Joined(segs, k) ==
    IF k = 0 THEN <<>>
    ELSE LET before == Joined(segs, k - 1)
             t == Trimmed(segs[k])
         IN  IF t = <<>> THEN before
             ELSE IF before = <<>> THEN t
             ELSE before \o <<" ">> \o t

\* C9: a call of transcribe_with_vosk that returns has fed every frame once in
\* file order and flushed once; its result is the emitted texts in emission
\* order, trimmed, the empty ones dropped, joined by one space; the result has
\* no whitespace at either end and is empty when no segment has text.
C9_Transcript ==
    tout.raised = "none" =>
        LET n == Len(tin.rec.perFrame)
            segs == Emitted(tin.rec)
        IN  /\ tout.fed = [i \in 1..n |-> i]
            /\ tout.flushes = 1
            /\ tout.text = Joined(segs, Len(segs))
            /\ tout.text # <<>> =>
                   (tout.text[1] # " " /\ tout.text[Len(tout.text)] # " ")
            /\ (\A k \in 1..Len(segs) : \A j \in 1..Len(segs[k]) : segs[k][j] = " ")
                   => tout.text = <<>>

C9_Witness ==
    /\ tout.raised = "none"
    /\ Len(tin.rec.perFrame) = 2
    /\ tin.rec.perFrame[1].kind = "text"
    /\ tin.rec.perFrame[1].text = <<" ", "a">>
    /\ tin.rec.perFrame[2].kind = "text"
    /\ tin.rec.perFrame[2].text = <<" ">>
    /\ tin.rec.final.has
    /\ tin.rec.final.text = <<"a", " ">>
    /\ tout.text = <<"a", " ", "a">>

\* C10: a provisioner call that finds a corrupt archive at the archive path,
\* with the artifact missing, the server up and serving the right archive and
\* the extraction working, returns the artifact.
C10_CorruptArchiveRecovered ==
    (ProvCalled /\ ~prov.present /\ prov.zipBefore = "corrupt"
       /\ prov.healthy) =>
        (prov.err = "none" /\ prov.ret # "none")

====
